---- MODULE Spec2Model ----
(***************************************************************************)
(* Model of the filesystem server of openapi-servers                       *)
(* (src/servers/filesystem/app): PathGuard (normalize_path), the           *)
(* file-backed confirmation store and the delete_path workflow, the        *)
(* mutating file and directory operations, get_metadata and search_files.  *)
(*                                                                         *)
(* Representation.  A Python str is a sequence of one-character strings,   *)
(* so that lower(), startswith(), `in` and replace() are computed and not  *)
(* assumed.  A resolved pathlib.Path is the sequence of its components.    *)
(* The filesystem is a function from resolved paths to nodes; the root     *)
(* directory is the empty path and always exists.                          *)
(*                                                                         *)
(* Environment assumptions.  The tree holds no symbolic links, the server  *)
(* process may read and write every node of the tree and its own snapshot  *)
(* file (no PermissionError, no IOError), and the clock never runs         *)
(* backwards.  Time is counted in seconds.                                 *)
(***************************************************************************)
EXTENDS Integers, Sequences, FiniteSets, TLC

VARIABLES fs, confFile, clock, issued, last, probe, budget, inflight

vars == <<fs, confFile, clock, issued, last, probe, budget, inflight>>

(***************************************************************************)
(* Bounds of the model.                                                    *)
(***************************************************************************)
MaxPathLen == 4      \* longest request path string tried against PathGuard
MaxClock == 90       \* the clock stops advancing here
TimeStep == 30       \* seconds between two observations of the clock
MaxRequests == 2     \* requests of one run of the whole service

(***************************************************************************)
(* Python str helpers.                                                     *)
(***************************************************************************)
LowerChar(c) ==
    CASE c = "R" -> "r"
      [] c = "S" -> "s"
      [] c = "H" -> "h"
      [] c = "F" -> "f"
      [] OTHER -> c

\* str.lower()
Lower(s) == [i \in DOMAIN s |-> LowerChar(s[i])]

\* str.startswith(prefix)
StartsWith(s, prefix) ==
    /\ Len(prefix) <= Len(s)
    /\ \A i \in 1..Len(prefix) : s[i] = prefix[i]

\* All strings over alphabet of length at most n.
RECURSIVE StringsUpTo(_, _)
StringsUpTo(alphabet, n) ==
    IF n = 0 THEN {<<>>}
    ELSE LET shorter == StringsUpTo(alphabet, n - 1)
         IN shorter \cup {Append(s, c) : s \in shorter, c \in alphabet}

(***************************************************************************)
(* Environment of the process and configuration.                          *)
(***************************************************************************)
\* os.path.expanduser("~"): the home directory of the server's user.
Home == <<"/", "h">>

\* The working directory relative request paths are resolved against.
Cwd == <<"/", "h">>

\* config.ALLOWED_DIRECTORIES: the ordered allowed roots, as strings.
ALLOWED_DIRECTORIES == << <<"/", "r">>, <<"/", "h", "/", "s">> >>

(***************************************************************************)
(* pathlib: expanduser, resolve, str.                                      *)
(***************************************************************************)
\* os.path.expanduser: "~" and "~/..." take the home directory; "~name" of
\* an unknown user is left as it is.
ExpandUser(s) ==
    IF Len(s) >= 1 /\ s[1] = "~" /\ (Len(s) = 1 \/ s[2] = "/")
    THEN Home \o SubSeq(s, 2, Len(s))
    ELSE s

\* The components of a path string: the pieces between "/" characters,
\* empty pieces included.
RECURSIVE SplitFrom(_, _, _)
SplitFrom(s, i, cur) ==
    IF i > Len(s) THEN <<cur>>
    ELSE IF s[i] = "/" THEN <<cur>> \o SplitFrom(s, i + 1, <<>>)
    ELSE SplitFrom(s, i + 1, Append(cur, s[i]))

Split(s) == SplitFrom(s, 1, <<>>)

\* Lexical normalisation of a component list: "" and "." are dropped and
\* ".." removes the component before it (the root is its own parent).
RECURSIVE Normalize(_, _)
Normalize(parts, acc) ==
    IF parts = <<>> THEN acc
    ELSE LET p == Head(parts)
             rest == Tail(parts)
         IN IF p = <<>> \/ p = <<".">> THEN Normalize(rest, acc)
            ELSE IF p = <<".", ".">>
                 THEN Normalize(rest, IF acc = <<>> THEN <<>>
                                      ELSE SubSeq(acc, 1, Len(acc) - 1))
            ELSE Normalize(rest, Append(acc, p))

\* pathlib.Path(s).resolve(): absolute, without "." and "..".
Resolve(s) ==
    LET abs == IF Len(s) >= 1 /\ s[1] = "/" THEN s ELSE Cwd \o <<"/">> \o s
    IN Normalize(Split(abs), <<>>)

\* str(path) of a resolved path.
RECURSIVE JoinParts(_)
JoinParts(parts) ==
    IF parts = <<>> THEN <<>>
    ELSE <<"/">> \o Head(parts) \o JoinParts(Tail(parts))

Str(path) == IF path = <<>> THEN <<"/">> ELSE JoinParts(path)

(***************************************************************************)
(* Responses.  Every response has the same fields; the ones an endpoint    *)
(* does not set keep their defaults.                                       *)
(***************************************************************************)
Response(status, detail) ==
    [status |-> status, detail |-> detail, cause |-> 0,
     requested_path |-> <<>>, allowed_directories |-> <<>>,
     confirmation_token |-> "", expires_at |-> 0, diff |-> <<>>,
     type |-> "", matches |-> {}]

\* HTTPException(status_code=403, detail={"error": "Access Denied", ...})
AccessDenied(requested) ==
    [Response(403, "Access Denied") EXCEPT
        !.requested_path = Str(requested),
        !.allowed_directories = ALLOWED_DIRECTORIES]

(***************************************************************************)
(* PathGuard: dependencies.normalize_path.                                 *)
(***************************************************************************)
\* Mutant: the comparison is case-sensitive.
RootMatchesNoLower(requested, allowed) ==
    StartsWith(Str(requested), allowed)

\* str(requested).lower().startswith(allowed.lower())
RootMatches(requested, allowed) ==
    StartsWith(Lower(Str(requested)), Lower(allowed))

\* for allowed in ALLOWED_DIRECTORIES: if ...: return requested
RECURSIVE FirstMatch(_, _)
FirstMatch(requested, roots) ==
    IF roots = <<>> THEN FALSE
    ELSE IF RootMatches(requested, Head(roots)) THEN TRUE
    ELSE FirstMatch(requested, Tail(roots))

\* [ok |-> TRUE, path |-> resolved] or [ok |-> FALSE, error |-> the 403].
normalize_path(requested_path) ==
    LET requested == Resolve(ExpandUser(requested_path))
    IN IF FirstMatch(requested, ALLOWED_DIRECTORIES)
       THEN [ok |-> TRUE, path |-> requested, error |-> Response(200, "")]
       ELSE [ok |-> FALSE, path |-> requested, error |-> AccessDenied(requested)]

(***************************************************************************)
(* The filesystem: a function from resolved paths to nodes.                *)
(***************************************************************************)
Dir == [kind |-> "dir", content |-> <<>>]

File(content) == [kind |-> "file", content |-> content]

\* Mutant: every path is taken to exist.
ExistsAlways(fsys, p) == TRUE

\* Path.exists(): the root exists; a path below a file does not.
Exists(fsys, p) == p = <<>> \/ p \in DOMAIN fsys

IsDir(fsys, p) == p = <<>> \/ (p \in DOMAIN fsys /\ fsys[p].kind = "dir")

IsFile(fsys, p) == p \in DOMAIN fsys /\ fsys[p].kind = "file"

Parent(p) == SubSeq(p, 1, Len(p) - 1)

\* q is p or lies below p.
Below(p, q) == Len(p) <= Len(q) /\ SubSeq(q, 1, Len(p)) = p

Subtree(fsys, p) == {q \in DOMAIN fsys : Below(p, q)}

IsEmptyDir(fsys, p) == IsDir(fsys, p) /\ Subtree(fsys, p) \subseteq {p}

Without(fsys, gone) == [q \in DOMAIN fsys \ gone |-> fsys[q]]

With(fsys, p, node) == [q \in DOMAIN fsys \cup {p} |-> IF q = p THEN node ELSE fsys[q]]

(***************************************************************************)
(* confirmations.py: the snapshot file and the pending confirmations.      *)
(* The file holds each expiry in ISO format, the handler holds a datetime. *)
(***************************************************************************)
CONFIRMATION_TTL_SECONDS == 60

NoConfirmations == [t \in {} |-> 0]

\* The snapshot file when it does not exist.
NoFile == [exists |-> FALSE, data |-> NoConfirmations]

\* datetime.isoformat() and datetime.fromisoformat()
IsoFormat(t) == <<"iso", t>>

FromIsoFormat(s) == s[2]

\* Mutant: the load keeps expired entries.
NotPrunedNever(expiry, now) == TRUE

\* if details["expiry"] > now
NotPruned(expiry, now) == expiry > now

\* load_confirmations(): the unexpired entries of the file, expiries parsed.
load_confirmations(file, now) ==
    IF ~file.exists THEN NoConfirmations
    ELSE LET valid == {t \in DOMAIN file.data :
                         NotPruned(FromIsoFormat(file.data[t].expiry), now)}
         IN [t \in valid |->
               [file.data[t] EXCEPT !.expiry = FromIsoFormat(file.data[t].expiry)]]

\* The I/O load_confirmations() does on the snapshot file, in order:
\* CONFIRMATION_FILE.exists(), and open and json.load when it exists.
SnapshotReads(file) ==
    IF file.exists THEN <<"snapshot_exists", "snapshot_open", "snapshot_read">>
    ELSE <<"snapshot_exists">>

\* save_confirmations(): the whole mapping replaces the file.
save_confirmations(confirmations) ==
    [exists |-> TRUE,
     data |-> [t \in DOMAIN confirmations |->
                 [confirmations[t] EXCEPT !.expiry = IsoFormat(confirmations[t].expiry)]]]

\* Mutant: the startup hook leaves the file in place.
cleanup_skipped(file) == file

\* cleanup_stale_confirmation_file(): unlink the file if it exists.
cleanup_stale_confirmation_file(file) ==
    IF file.exists THEN NoFile ELSE file

(***************************************************************************)
(* load_confirmations on whatever the snapshot file may hold.  A snapshot  *)
(* is [kind, entries]: kind says what the file is ("missing",              *)
(* "unreadable", "not_utf8", "invalid_json", a JSON value that is no       *)
(* object: "array", "string", "number", "null", or "object"), entries the  *)
(* members of the object.  An entry is [kind, path, recursive, expiry]:    *)
(* kind is the JSON type of the member's value, and expiry its "expiry"    *)
(* member: <<"iso", t>> (ISO text with UTC offset), <<"naive", t>> (ISO    *)
(* text without offset), <<"text">>, <<"number">> or <<"absent">>.         *)
(***************************************************************************)
\* The exception CONFIRMATION_FILE.open("r") and json.load(f) raise, "" when
\* they return.
JsonLoadRaises(snapshot) ==
    CASE snapshot.kind = "unreadable" -> "IOError"
      [] snapshot.kind = "not_utf8" -> "UnicodeDecodeError"
      [] snapshot.kind = "invalid_json" -> "JSONDecodeError"
      [] OTHER -> ""

\* The exception data.items() raises.
ItemsRaises(snapshot) ==
    IF snapshot.kind = "object" THEN "" ELSE "AttributeError"

\* The exception the body of the inner try raises for one entry:
\* details["expiry"], datetime.fromisoformat(...), details["expiry"] > now.
EntryRaises(details) ==
    IF details.kind # "object" THEN "TypeError"
    ELSE CASE details.expiry[1] = "absent" -> "KeyError"
           [] details.expiry[1] = "number" -> "TypeError"
           [] details.expiry[1] = "text" -> "ValueError"
           [] details.expiry[1] = "naive" -> "TypeError"
           [] OTHER -> ""

\* except (ValueError, TypeError, KeyError): continue
InnerExcept == {"ValueError", "TypeError", "KeyError"}

\* except (json.JSONDecodeError, IOError): return {}
OuterExcept == {"JSONDecodeError", "IOError"}

\* load_confirmations() on a snapshot: [raised, value], raised the
\* exception that leaves the function ("" when it returns) and value the
\* mapping it returns.
LoadSnapshot(snapshot, now) ==
    LET returns(value) == [raised |-> "", value |-> value]
        raises(exception) ==
            IF exception \in OuterExcept THEN returns(NoConfirmations)
            ELSE [raised |-> exception, value |-> NoConfirmations]
        valid == {t \in DOMAIN snapshot.entries :
                    /\ EntryRaises(snapshot.entries[t]) = ""
                    /\ NotPruned(FromIsoFormat(snapshot.entries[t].expiry), now)}
        skipped == {t \in DOMAIN snapshot.entries :
                      EntryRaises(snapshot.entries[t]) \notin InnerExcept \cup {""}}
    IN IF snapshot.kind = "missing" THEN returns(NoConfirmations)
       ELSE IF JsonLoadRaises(snapshot) # "" THEN raises(JsonLoadRaises(snapshot))
       ELSE IF ItemsRaises(snapshot) # "" THEN raises(ItemsRaises(snapshot))
       ELSE IF skipped # {}
       THEN raises(EntryRaises(snapshot.entries[CHOOSE t \in skipped : TRUE]))
       ELSE returns([t \in valid |->
                       [path |-> snapshot.entries[t].path,
                        recursive |-> snapshot.entries[t].recursive,
                        expiry |-> FromIsoFormat(snapshot.entries[t].expiry)]])

\* The snapshot a file written by save_confirmations is.
SnapshotOf(file) ==
    IF ~file.exists THEN [kind |-> "missing", entries |-> NoConfirmations]
    ELSE [kind |-> "object",
          entries |-> [t \in DOMAIN file.data |->
                         [kind |-> "object", path |-> file.data[t].path,
                          recursive |-> file.data[t].recursive,
                          expiry |-> file.data[t].expiry]]]

(***************************************************************************)
(* path_ops.delete_path                                                    *)
(***************************************************************************)
\* Mutant: only the path is compared.
ParametersMismatchPathOnly(confirmation_data, path, recursive) ==
    confirmation_data.path # path

\* confirmation_data["path"] != data.path or
\* confirmation_data["recursive"] != data.recursive
ParametersMismatch(confirmation_data, path, recursive) ==
    confirmation_data.path # path \/ confirmation_data.recursive # recursive

\* if now > confirmation_data["expiry"]
HandlerExpired(now, expiry) == now > expiry

\* Mutant: the token is not removed.
DelTokenSkipped(pending, token) == pending

\* del pending_confirmations[token]
DelToken(pending, token) == [t \in DOMAIN pending \ {token} |-> pending[t]]

\* pending_confirmations[token] = {...}
SetToken(pending, token, entry) ==
    [t \in DOMAIN pending \cup {token} |-> IF t = token THEN entry ELSE pending[t]]

\* The body of the try block: what it does to the filesystem, and the
\* response it returns (status 200) or the HTTPException it raises.
DeleteTarget(fsys, path, recursive) ==
    IF ~Exists(fsys, path)
    THEN [fs |-> fsys, resp |-> Response(404, "Path not found")]
    ELSE IF IsFile(fsys, path)
    THEN [fs |-> Without(fsys, {path}),
          resp |-> Response(200, "Successfully deleted file")]
    ELSE IF recursive
    THEN [fs |-> Without(fsys, Subtree(fsys, path)),
          resp |-> Response(200, "Successfully deleted directory recursively")]
    ELSE IF IsEmptyDir(fsys, path)
    THEN [fs |-> Without(fsys, {path}),
          resp |-> Response(200, "Successfully deleted empty directory")]
    ELSE [fs |-> fsys, resp |-> Response(400, "Directory not empty")]

\* except Exception as e: raise HTTPException(status_code=500, ...).
\* HTTPException is an Exception, so the handler's own 404 and 400 raised
\* inside the try block are caught here too; cause keeps their status.
ExceptException(resp, detail) ==
    IF resp.status = 200 THEN resp
    ELSE [Response(500, detail) EXCEPT !.cause = resp.status]

\* The handler after its first two lines: pending is what
\* load_confirmations returned and guard what normalize_path returned.
DeleteChecked(fsys, file, pending, guard, path, recursive, confirmation_token, now, token) ==
    LET keep(stage, resp) == [fs |-> fsys, conf |-> file, resp |-> resp, stage |-> stage]
    IN IF ~guard.ok THEN keep("denied", guard.error)
       ELSE IF confirmation_token # ""
       THEN IF confirmation_token \notin DOMAIN pending
            THEN keep("invalid",
                      Response(400, "Invalid or expired confirmation token."))
            ELSE IF HandlerExpired(now, pending[confirmation_token].expiry)
            THEN [fs |-> fsys,
                  conf |-> save_confirmations(DelToken(pending, confirmation_token)),
                  resp |-> Response(400, "Confirmation token has expired."),
                  stage |-> "expired"]
            ELSE IF ParametersMismatch(pending[confirmation_token], path, recursive)
            THEN keep("mismatch",
                      Response(400, "Request parameters (path, recursive) do not match"))
            ELSE LET done == DeleteTarget(fsys, guard.path, recursive)
                 IN [fs |-> done.fs,
                     conf |-> save_confirmations(DelToken(pending, confirmation_token)),
                     resp |-> ExceptException(done.resp, "Failed to delete"),
                     stage |-> "executed"]
       ELSE IF ~Exists(fsys, guard.path)
       THEN keep("notfound", Response(404, "Path not found"))
       ELSE LET expiry_time == now + CONFIRMATION_TTL_SECONDS
                entry == [path |-> path, recursive |-> recursive, expiry |-> expiry_time]
            IN [fs |-> fsys,
                conf |-> save_confirmations(SetToken(pending, token, entry)),
                resp |-> [Response(200, "Confirm deletion") EXCEPT
                            !.confirmation_token = token,
                            !.expires_at = expiry_time],
                stage |-> "issued"]

\* The handler.  loaded is the time load_confirmations reads the clock,
\* now the handler's own timestamp, token the secrets.token_hex draw.
delete_path(fsys, file, path, recursive, confirmation_token, loaded, now, token) ==
    DeleteChecked(fsys, file, load_confirmations(file, loaded), normalize_path(path),
                  path, recursive, confirmation_token, now, token)

(***************************************************************************)
(* files.write_file and directories.create_directory                       *)
(***************************************************************************)
\* Some proper ancestor of p is missing or is a file.
BrokenParent(fsys, p) == p # <<>> /\ ~IsDir(fsys, Parent(p))

\* Some proper ancestor of p is a file.
FileAbove(fsys, p) == \E n \in 1..(Len(p) - 1) : IsFile(fsys, SubSeq(p, 1, n))

\* The proper ancestors of p and p itself, the root left out.
Chain(p) == {SubSeq(p, 1, n) : n \in 1..Len(p)}

write_file(fsys, path, content) ==
    LET guard == normalize_path(path)
    IN IF ~guard.ok THEN [fs |-> fsys, resp |-> guard.error]
       ELSE IF IsDir(fsys, guard.path) \/ BrokenParent(fsys, guard.path)
       THEN [fs |-> fsys, resp |-> Response(500, "Failed to write")]
       ELSE [fs |-> With(fsys, guard.path, File(content)),
             resp |-> Response(200, "Successfully wrote")]

\* dir_path.mkdir(parents=True, exist_ok=True)
create_directory(fsys, path) ==
    LET guard == normalize_path(path)
    IN IF ~guard.ok THEN [fs |-> fsys, resp |-> guard.error]
       ELSE IF IsFile(fsys, guard.path) \/ FileAbove(fsys, guard.path)
       THEN [fs |-> fsys, resp |-> Response(500, "Failed to create directory")]
       ELSE [fs |-> [q \in DOMAIN fsys \cup Chain(guard.path) |->
                       IF q \in DOMAIN fsys THEN fsys[q] ELSE Dir],
             resp |-> Response(200, "Successfully created directory")]

(***************************************************************************)
(* files.edit_file                                                         *)
(***************************************************************************)
\* The first index at which sub occurs in s, 0 when it does not occur.
\* The empty string occurs at index 1 of every string.
RECURSIVE FindFrom(_, _, _)
FindFrom(s, sub, i) ==
    IF i + Len(sub) - 1 > Len(s) THEN 0
    ELSE IF SubSeq(s, i, i + Len(sub) - 1) = sub THEN i
    ELSE FindFrom(s, sub, i + 1)

\* edit.oldText in modified
Contains(s, sub) == FindFrom(s, sub, 1) # 0

\* Mutant: every occurrence is replaced, as modified.replace(oldText,
\* newText) without the count would do.
RECURSIVE ReplaceEvery(_, _, _)
ReplaceEvery(s, old, new) ==
    LET i == FindFrom(s, old, 1)
    IN IF old = <<>> THEN new \o s
       ELSE IF i = 0 THEN s
       ELSE SubSeq(s, 1, i - 1) \o new
            \o ReplaceEvery(SubSeq(s, i + Len(old), Len(s)), old, new)

\* modified.replace(oldText, newText, 1)
ReplaceFirst(s, old, new) ==
    LET i == FindFrom(s, old, 1)
    IN IF i = 0 THEN s
       ELSE SubSeq(s, 1, i - 1) \o new \o SubSeq(s, i + Len(old), Len(s))

\* The for loop over data.edits: [ok, modified]; ok is FALSE when an
\* oldText was not found, and modified is then the content at that step.
RECURSIVE ApplyEdits(_, _)
ApplyEdits(modified, edits) ==
    IF edits = <<>> THEN [ok |-> TRUE, modified |-> modified]
    ELSE IF ~Contains(modified, Head(edits).oldText)
    THEN [ok |-> FALSE, modified |-> modified]
    ELSE ApplyEdits(ReplaceFirst(modified, Head(edits).oldText, Head(edits).newText),
                    Tail(edits))

\* str.splitlines(keepends=True) of a text without line breaks.
SplitLines(text) == IF text = <<>> THEN <<>> ELSE <<text>>

\* "".join(difflib.unified_diff(a, b, fromfile="a/<path>", tofile="b/<path>"))
\* for texts of at most one line each: empty when they are equal, else the
\* two file headers, the hunk header and the removed and added lines.
UnifiedDiff(a, b, path) ==
    IF a = b THEN <<>>
    ELSE LET range(lines) == IF lines = <<>> THEN <<"0", ",", "0">> ELSE <<"1">>
             nl == <<"\n">>
         IN <<"-", "-", "-", " ", "a", "/">> \o path \o nl
            \o <<"+", "+", "+", " ", "b", "/">> \o path \o nl
            \o <<"@", "@", " ", "-">> \o range(a) \o <<" ", "+">> \o range(b)
            \o <<" ", "@", "@">> \o nl
            \o (IF a = <<>> THEN <<>> ELSE <<"-">> \o a[1])
            \o (IF b = <<>> THEN <<>> ELSE <<"+">> \o b[1])

\* Mutant: the content reached so far is written before the request fails.
AbortEditPartial(fsys, target, modified) ==
    [fs |-> With(fsys, target, File(modified)),
     resp |-> ExceptException(Response(400, "Edit failed: oldText not found"),
                              "Failed to write edited file")]

\* raise HTTPException(status_code=400, ...) inside the try block: nothing
\* is written, and except Exception turns the 400 into a 500.
AbortEdit(fsys, target, modified) ==
    [fs |-> fsys,
     resp |-> ExceptException(Response(400, "Edit failed: oldText not found"),
                              "Failed to write edited file")]

\* Mutant: the dry run writes as well.
FinishEditAlwaysWrites(fsys, target, path, original, modified, dryRun) ==
    [fs |-> With(fsys, target, File(modified)),
     resp |-> IF dryRun
              THEN [Response(200, "diff") EXCEPT
                      !.diff = <<>>]
              ELSE Response(200, "Successfully edited file")]

\* What the second try block does once the edits are applied.
FinishEdit(fsys, target, path, original, modified, dryRun) ==
    IF dryRun
    THEN [fs |-> fsys,
          resp |-> [Response(200, "diff") EXCEPT
                      !.diff = UnifiedDiff(SplitLines(original), SplitLines(modified), path)]]
    ELSE [fs |-> With(fsys, target, File(modified)),
          resp |-> Response(200, "Successfully edited file")]

edit_file(fsys, path, edits, dryRun) ==
    LET guard == normalize_path(path)
        keep(resp) == [fs |-> fsys, resp |-> resp]
    IN IF ~guard.ok THEN keep(guard.error)
       ELSE IF IsDir(fsys, guard.path) \/ FileAbove(fsys, guard.path)
       THEN keep(Response(500, "Failed to read file for editing"))
       ELSE IF ~Exists(fsys, guard.path)
       THEN keep(Response(404, "File not found"))
       ELSE LET original == fsys[guard.path].content
                applied == ApplyEdits(original, edits)
            IN IF ~applied.ok
               THEN AbortEdit(fsys, guard.path, applied.modified)
               ELSE FinishEdit(fsys, guard.path, path, original, applied.modified, dryRun)

(***************************************************************************)
(* path_ops.move_path                                                      *)
(***************************************************************************)
\* shutil.move(src, dst) for an existing src: the resulting tree, or the
\* tree unchanged and ok = FALSE when shutil raises.
ShutilMove(fsys, src, dst) ==
    LET into == IsDir(fsys, dst) /\ src # dst
        real_dst == IF into THEN Append(dst, src[Len(src)]) ELSE dst
        moved == Subtree(fsys, src)
        rebase(q) == real_dst \o SubSeq(q, Len(src) + 1, Len(q))
        result == [q \in (DOMAIN fsys \ moved) \cup {rebase(m) : m \in moved}
                     \cup (IF IsDir(fsys, src) THEN Chain(real_dst) ELSE {}) |->
                   IF \E m \in moved : rebase(m) = q
                   THEN fsys[CHOOSE m \in moved : rebase(m) = q]
                   ELSE IF q \in DOMAIN fsys THEN fsys[q] ELSE Dir]
        fail == [fs |-> fsys, ok |-> FALSE]
    IN IF src = <<>> THEN fail
       ELSE IF src = real_dst THEN [fs |-> fsys, ok |-> TRUE]
       ELSE IF into /\ Exists(fsys, real_dst) THEN fail
       ELSE IF IsDir(fsys, src) /\ Below(src, real_dst) THEN fail
       ELSE IF IsDir(fsys, src) /\ (IsFile(fsys, real_dst) \/ FileAbove(fsys, real_dst))
       THEN fail
       ELSE IF IsFile(fsys, src) /\ BrokenParent(fsys, real_dst) THEN fail
       ELSE [fs |-> result, ok |-> TRUE]

\* The try block of move_path, both paths already resolved.
MoveResolved(fsys, source, destination) ==
    IF ~Exists(fsys, source)
    THEN [fs |-> fsys,
          resp |-> ExceptException(Response(404, "Source path not found"),
                                   "Failed to move")]
    ELSE LET done == ShutilMove(fsys, source, destination)
         IN [fs |-> done.fs,
             resp |-> IF done.ok THEN Response(200, "Successfully moved")
                      ELSE Response(500, "Failed to move")]

\* Mutant: only the source is checked.
move_path_source_only(fsys, source_path, destination_path) ==
    LET source == normalize_path(source_path)
    IN IF ~source.ok THEN [fs |-> fsys, resp |-> source.error]
       ELSE MoveResolved(fsys, source.path, Resolve(ExpandUser(destination_path)))

move_path(fsys, source_path, destination_path) ==
    LET source == normalize_path(source_path)
        destination == normalize_path(destination_path)
    IN IF ~source.ok THEN [fs |-> fsys, resp |-> source.error]
       ELSE IF ~destination.ok THEN [fs |-> fsys, resp |-> destination.error]
       ELSE MoveResolved(fsys, source.path, destination.path)

\* Mutant: the confirmations are read again when the handler goes on, so
\* that load, change and save are one step.
FinishCheckedReloaded(fsys, file, held, now, token) ==
    DeleteChecked(fsys, file, load_confirmations(file, now), normalize_path(held.path),
                  held.path, held.recursive, held.token, now, token)

\* The handler from its second line on, for a request whose
\* load_confirmations() call returned held.pending some time ago.
FinishChecked(fsys, file, held, now, token) ==
    DeleteChecked(fsys, file, held.pending, normalize_path(held.path),
                  held.path, held.recursive, held.token, now, token)

(***************************************************************************)
(* path_ops.get_metadata                                                   *)
(***************************************************************************)
\* The try block: the 404 for a missing path is raised inside it and
\* caught by except Exception.  Of the metadata the response keeps the
\* path and the type; sizes and times are left out.
get_metadata(fsys, path) ==
    LET guard == normalize_path(path)
    IN IF ~guard.ok THEN guard.error
       ELSE IF ~Exists(fsys, guard.path)
       THEN ExceptException(Response(404, "Path not found"), "Failed to get metadata")
       ELSE [Response(200, "metadata") EXCEPT
               !.requested_path = Str(guard.path),
               !.type = IF IsFile(fsys, guard.path) THEN "file" ELSE "directory"]

(***************************************************************************)
(* directories.search_files                                                *)
(***************************************************************************)
\* fnmatch.fnmatchcase(name, pat) for patterns of literal characters and
\* "*" (any run of characters).
RECURSIVE FnMatch(_, _)
FnMatch(name, pat) ==
    IF pat = <<>> THEN name = <<>>
    ELSE IF Head(pat) = "*"
    THEN FnMatch(name, Tail(pat)) \/ (name # <<>> /\ FnMatch(Tail(name), pat))
    ELSE name # <<>> /\ Head(name) = Head(pat) /\ FnMatch(Tail(name), Tail(pat))

\* The parts of a pure path: the root "/" first when the string is
\* absolute, then the components, "" and "." dropped.
PathParts(text) ==
    LET names == SelectSeq(Split(text), LAMBDA c : c # <<>> /\ c # <<".">>)
    IN IF Len(text) >= 1 /\ text[1] = "/" THEN <<<<"/">>>> \o names ELSE names

\* pathlib.Path(root).match(pattern): an absolute pattern must match the
\* whole path, a relative one its last parts, part by part from the right.
PathMatch(root, pattern) ==
    LET parts == PathParts(Str(root))
        pat == PathParts(pattern)
        shift == Len(parts) - Len(pat)
        absolute == Len(pattern) >= 1 /\ pattern[1] = "/"
    IN /\ shift >= 0
       /\ absolute => shift = 0
       /\ \A i \in 1..Len(pat) : FnMatch(parts[shift + i], pat[i])

\* for pattern in data.excludePatterns: if Path(root).match(pattern)
Excluded(root, excludePatterns) ==
    \E i \in DOMAIN excludePatterns : PathMatch(root, excludePatterns[i])

\* The roots os.walk(base_path) yields: the directory itself and every
\* directory below it; nothing when base_path is no directory.
WalkRoots(fsys, base_path) ==
    IF IsDir(fsys, base_path)
    THEN {base_path} \cup {q \in Subtree(fsys, base_path) : IsDir(fsys, q)}
    ELSE {}

\* files + dirs of one root: the entries directly in it.
Items(fsys, root) == {q \in DOMAIN fsys : Len(q) >= 1 /\ Parent(q) = root}

\* data.pattern.lower() in item.lower()
NameMatches(item, pattern) == Contains(Lower(item), Lower(pattern))

\* any(str(result_path).startswith(alt) for alt in ALLOWED_DIRECTORIES)
UnderAllowed(result_path) ==
    \E i \in DOMAIN ALLOWED_DIRECTORIES :
        StartsWith(Str(result_path), ALLOWED_DIRECTORIES[i])

\* The string returned in place of an empty result list.
NoMatchesFound ==
    <<"N", "o", " ", "m", "a", "t", "c", "h", "e", "s", " ", "f", "o", "u", "n", "d">>

\* The handler.  The matches are kept as a set: their order is the order
\* in which the host lists the directories.
search_files(fsys, path, pattern, excludePatterns) ==
    LET guard == normalize_path(path)
        results == {Str(q) : q \in
                      {e \in UNION {Items(fsys, root) :
                                      root \in {w \in WalkRoots(fsys, guard.path) :
                                                  ~Excluded(w, excludePatterns)}} :
                         /\ NameMatches(e[Len(e)], pattern)
                         /\ UnderAllowed(e)}}
    IN IF ~guard.ok THEN guard.error
       ELSE [Response(200, "matches") EXCEPT
               !.matches = IF results = {} THEN {NoMatchesFound} ELSE results]

(***************************************************************************)
(* The inputs the requests are drawn from.                                 *)
(***************************************************************************)
\* The values secrets.token_hex(3)[:5] is drawn from.
Tokens == {"t1", "t2"}

P_rf == <<"/", "r", "/", "f">>
P_rd == <<"/", "r", "/", "d">>
P_rdg == <<"/", "r", "/", "d", "/", "g">>
P_rn == <<"/", "r", "/", "n">>
P_of == <<"/", "o", "/", "f">>

\* Paths of delete_path requests: a directory that is not empty, the file
\* inside it, and a file outside the allowed roots.
DeletePaths == {P_rd, P_rdg, P_of}

\* Paths of the other mutating requests: a file, a directory, a path that
\* does not exist yet, and a file outside the allowed roots.
OpPaths == {P_rf, P_rd, P_rn, P_of}

PathChars == {"/", ".", "~", "r", "R", "s", "h", "x"}

Contents == {<<"a", "b">>, <<"b">>}

OldTexts == {<<>>, <<"a">>, <<"b">>, <<"a", "b">>}

NewTexts == {<<>>, <<"b">>, <<"b", "a">>}

MaxEdits == 2         \* longest edit list of an edit_file request
MaxContentLen == 4    \* longest file content an edit may produce

Edits == [oldText : OldTexts, newText : NewTexts]

RECURSIVE SeqsUpTo(_, _)
SeqsUpTo(S, n) ==
    IF n = 0 THEN {<<>>}
    ELSE LET shorter == SeqsUpTo(S, n - 1)
         IN shorter \cup {Append(q, x) : q \in shorter, x \in S}

\* The edit lists of the requests of the whole service, and of the
\* specification that exercises edit_file alone.
FewEditLists == {<<>>, <<[oldText |-> <<"a">>, newText |-> <<"b">>]>>,
                 <<[oldText |-> <<"b", "b">>, newText |-> <<>>]>>}

AllEditLists == SeqsUpTo(Edits, MaxEdits)

(***************************************************************************)
(* The state.  fs is the tree, confFile the snapshot file, clock the UTC   *)
(* time.  last is the request handled last and its response.  issued is    *)
(* history: for each token string its latest issuance and what became of   *)
(* it ("never", "live", "used" once a request passed the token and         *)
(* parameter checks with it, "stale" after a restart).  probe is the       *)
(* input of the PathGuard specification, and budget the number of          *)
(* requests the run may still serve (Unlimited: any number).  inflight     *)
(* holds, for each worker process, the delete_path request it has begun    *)
(* and not finished, with the confirmations it loaded; where the handlers  *)
(* run one after another every worker is idle.  The io field of last is    *)
(* the I/O the handler did before it called normalize_path.                *)
(***************************************************************************)
\* The worker processes that serve requests on the same snapshot file.
Workers == {1, 2}

Idle ==
    [busy |-> FALSE, path |-> <<>>, recursive |-> FALSE, token |-> "",
     pending |-> NoConfirmations]

Comp(c) == <<c>>

InitialTree ==
    LET r == <<Comp("r")>>
        o == <<Comp("o")>>
        h == <<Comp("h")>>
    IN (r :> Dir) @@ (Append(r, Comp("f")) :> File(<<"a", "b">>))
       @@ (Append(r, Comp("d")) :> Dir)
       @@ (Append(Append(r, Comp("d")), Comp("g")) :> File(<<"a">>))
       @@ (o :> Dir) @@ (Append(o, Comp("f")) :> File(<<"a">>))
       @@ (h :> Dir) @@ (Append(h, Comp("s")) :> Dir)

NeverIssued == [path |-> <<>>, recursive |-> FALSE, expiry |-> 0, status |-> "never"]

Request(op) ==
    [op |-> op, path |-> <<>>, path2 |-> <<>>, recursive |-> FALSE, token |-> "",
     content |-> <<>>, edits |-> <<>>, dryRun |-> FALSE, at |-> 0,
     pattern |-> <<>>, excludePatterns |-> <<>>, io |-> <<>>,
     snapshot |-> [kind |-> "missing", entries |-> NoConfirmations],
     loaded |-> [raised |-> "", value |-> NoConfirmations],
     stage |-> "", resp |-> Response(0, "")]

Unlimited == 0 - 1

\* One more request is served.
Serve == budget # 0 /\ budget' = IF budget = Unlimited THEN budget ELSE budget - 1

Init ==
    /\ fs = InitialTree
    /\ confFile = NoFile
    /\ clock = 0
    /\ issued = [t \in Tokens |-> NeverIssued]
    /\ last = Request("start")
    /\ probe = <<>>
    /\ budget = Unlimited
    /\ inflight = [w \in Workers |-> Idle]

(***************************************************************************)
(* Actions: one per request handler, the clock and the restart.            *)
(***************************************************************************)
\* What a handled delete_path request records about the token it used.
Record(history, stage, confirmation_token, token, path, recursive, now) ==
    IF stage = "issued"
    THEN [history EXCEPT ![token] =
            [path |-> path, recursive |-> recursive,
             expiry |-> now + CONFIRMATION_TTL_SECONDS, status |-> "live"]]
    ELSE IF stage = "executed"
    THEN [history EXCEPT ![confirmation_token] = [NeverIssued EXCEPT !.status = "used"]]
    ELSE history

\* A delete_path request: its state changes and what it leaves in last.
DeleteStep(path, recursive, confirmation_token, elapsed, token) ==
    /\ Serve
    /\ clock + elapsed <= MaxClock
    /\ \E r \in {delete_path(fs, confFile, path, recursive, confirmation_token,
                             clock, clock + elapsed, token)} :
          /\ fs' = r.fs
          /\ confFile' = r.conf
          /\ clock' = clock + elapsed
          /\ issued' = Record(issued, r.stage, confirmation_token, token,
                              path, recursive, clock + elapsed)
          /\ last' = [Request("delete_path") EXCEPT
                        !.path = path, !.recursive = recursive,
                        !.token = confirmation_token, !.at = clock,
                        !.io = SnapshotReads(confFile),
                        !.stage = r.stage, !.resp = r.resp]
          /\ UNCHANGED <<probe, inflight>>

\* Time that passes inside a handler between reading the snapshot and
\* taking the handler's own timestamp.
Elapsed == {0, TimeStep, 2 * TimeStep}

\* delete_path without a token.
DeleteRequest ==
    \E path \in DeletePaths, recursive \in BOOLEAN, elapsed \in Elapsed,
       token \in Tokens :
        DeleteStep(path, recursive, "", elapsed, token)

\* delete_path with a token.
DeleteConfirm ==
    \E path \in DeletePaths, recursive \in BOOLEAN, elapsed \in Elapsed,
       confirmation_token \in Tokens :
        DeleteStep(path, recursive, confirmation_token, elapsed, "t1")

\* Time passes between two requests.
Tick ==
    /\ clock + TimeStep <= MaxClock
    /\ clock' = clock + TimeStep
    /\ last' = Request("tick")
    /\ UNCHANGED <<fs, confFile, issued, probe, budget, inflight>>

\* The service is restarted: main.lifespan runs the startup hook.
Restart ==
    /\ confFile' = cleanup_stale_confirmation_file(confFile)
    /\ issued' = [t \in Tokens |->
                    IF issued[t].status = "live"
                    THEN [NeverIssued EXCEPT !.status = "stale",
                                             !.expiry = issued[t].expiry]
                    ELSE issued[t]]
    /\ last' = Request("restart")
    /\ UNCHANGED <<fs, clock, probe, budget, inflight>>

WriteFile ==
    /\ Serve
    /\ \E path \in OpPaths, content \in Contents :
        \E r \in {write_file(fs, path, content)} :
           /\ fs' = r.fs
           /\ last' = [Request("write_file") EXCEPT
                         !.path = path, !.content = content, !.resp = r.resp]
           /\ UNCHANGED <<confFile, clock, issued, probe, inflight>>

CreateDirectory ==
    /\ Serve
    /\ \E path \in OpPaths :
        \E r \in {create_directory(fs, path)} :
           /\ fs' = r.fs
           /\ last' = [Request("create_directory") EXCEPT
                         !.path = path, !.resp = r.resp]
           /\ UNCHANGED <<confFile, clock, issued, probe, inflight>>

EditWith(paths, editLists) ==
    /\ Serve
    /\ \E path \in paths, edits \in editLists, dryRun \in BOOLEAN :
        \E r \in {edit_file(fs, path, edits, dryRun)} :
           /\ \A q \in DOMAIN r.fs : Len(r.fs[q].content) <= MaxContentLen
           /\ fs' = r.fs
           /\ last' = [Request("edit_file") EXCEPT
                         !.path = path, !.edits = edits, !.dryRun = dryRun,
                         !.resp = r.resp]
           /\ UNCHANGED <<confFile, clock, issued, probe, inflight>>

EditFile == EditWith(OpPaths, FewEditLists)

EditAny == EditWith({P_rf}, AllEditLists)

MovePath ==
    /\ Serve
    /\ \E source_path \in OpPaths, destination_path \in OpPaths :
        \E r \in {move_path(fs, source_path, destination_path)} :
           /\ fs' = r.fs
           /\ last' = [Request("move_path") EXCEPT
                         !.path = source_path, !.path2 = destination_path,
                         !.resp = r.resp]
           /\ UNCHANGED <<confFile, clock, issued, probe, inflight>>

GetMetadata ==
    /\ Serve
    /\ \E path \in OpPaths :
          /\ last' = [Request("get_metadata") EXCEPT
                        !.path = path, !.resp = get_metadata(fs, path)]
          /\ UNCHANGED <<fs, confFile, clock, issued, probe, inflight>>

\* The inputs of search_files: base paths (allowed roots in both cases, a
\* directory two levels down, a file, a missing path, a denied path), name
\* patterns and exclude patterns (none of them empty).
SearchPaths == {<<"/", "r">>, <<"/", "R">>, <<"/", "r", "/", "s">>,
                <<"/", "r", "/", "f", "a">>, <<"/", "r", "/", "n">>, <<"/", "o">>}

SearchPatterns == {<<>>, <<"f">>, <<"F">>, <<"a">>, <<"s">>, <<"d">>,
                   <<"f", "a">>, <<"x">>}

ExcludePatterns == {<<"s">>, <<"S">>, <<"d">>, <<"r", "/", "s">>,
                    <<"/", "r", "/", "s">>, <<"s", "*">>, <<"*">>}

MaxExcludes == 2      \* longest excludePatterns list of a search request

SearchFiles ==
    /\ Serve
    /\ \E path \in SearchPaths, pattern \in SearchPatterns,
          excludePatterns \in SeqsUpTo(ExcludePatterns, MaxExcludes) :
          /\ last' = [Request("search_files") EXCEPT
                        !.path = path, !.pattern = pattern,
                        !.excludePatterns = excludePatterns,
                        !.resp = search_files(fs, path, pattern, excludePatterns)]
          /\ UNCHANGED <<fs, confFile, clock, issued, probe, inflight>>

\* What the snapshot file may hold: the values an entry may have, the
\* objects over the tokens, and the files that are no JSON object.
EntryValues ==
    {[kind |-> "object", path |-> P_rd, recursive |-> FALSE, expiry |-> e] :
        e \in {IsoFormat(0), IsoFormat(CONFIRMATION_TTL_SECONDS),
                <<"naive", CONFIRMATION_TTL_SECONDS>>, <<"text">>, <<"number">>,
                <<"absent">>}}
    \cup {[kind |-> k, path |-> <<>>, recursive |-> FALSE, expiry |-> <<"absent">>] :
            k \in {"number", "string", "array", "null"}}

Snapshots ==
    {[kind |-> k, entries |-> NoConfirmations] :
        k \in {"missing", "unreadable", "not_utf8", "invalid_json",
                "array", "string", "number", "null"}}
    \cup {[kind |-> "object", entries |-> e] :
            e \in UNION {[held -> EntryValues] : held \in SUBSET Tokens}}

\* load_confirmations() is called on a snapshot file.
LoadConfirmations ==
    /\ Serve
    /\ \E snapshot \in Snapshots :
          /\ last' = [Request("load_confirmations") EXCEPT
                        !.snapshot = snapshot,
                        !.loaded = LoadSnapshot(snapshot, clock)]
          /\ UNCHANGED <<fs, confFile, clock, issued, probe, inflight>>

\* Worker w takes a delete_path request and runs its first line: it reads
\* the snapshot file.  Nothing locks the file until the save.
BeginDelete(w) ==
    /\ Serve
    /\ ~inflight[w].busy
    /\ \E path \in DeletePaths, recursive \in BOOLEAN,
          confirmation_token \in Tokens \cup {""} :
          /\ inflight' = [inflight EXCEPT ![w] =
                            [busy |-> TRUE, path |-> path, recursive |-> recursive,
                             token |-> confirmation_token,
                             pending |-> load_confirmations(confFile, clock)]]
          /\ last' = [Request("delete_path_begins") EXCEPT
                        !.path = path, !.recursive = recursive,
                        !.token = confirmation_token, !.at = clock,
                        !.io = SnapshotReads(confFile)]
          /\ UNCHANGED <<fs, confFile, clock, issued, probe>>

\* Worker w runs the rest of the handler on what it loaded: the checks,
\* the change of its own mapping, the save and the deletion.
FinishDelete(w) ==
    /\ inflight[w].busy
    /\ \E token \in Tokens :
        \E r \in {FinishChecked(fs, confFile, inflight[w], clock, token)} :
          /\ fs' = r.fs
          /\ confFile' = r.conf
          /\ issued' = Record(issued, r.stage, inflight[w].token, token,
                              inflight[w].path, inflight[w].recursive, clock)
          /\ last' = [Request("delete_path") EXCEPT
                        !.path = inflight[w].path,
                        !.recursive = inflight[w].recursive,
                        !.token = inflight[w].token, !.at = clock,
                        !.stage = r.stage, !.resp = r.resp]
          /\ inflight' = [inflight EXCEPT ![w] = Idle]
          /\ UNCHANGED <<clock, probe, budget>>

BeginAny == \E w \in Workers : BeginDelete(w)

FinishAny == \E w \in Workers : FinishDelete(w)

\* PathGuard applied to the probe.
Guard ==
    LET guard == normalize_path(probe)
    IN /\ last' = [Request("normalize_path") EXCEPT
                     !.path = probe,
                     !.stage = IF guard.ok THEN "accepted" ELSE "denied",
                     !.resp = IF guard.ok
                              THEN [Response(200, "") EXCEPT
                                      !.requested_path = Str(guard.path)]
                              ELSE guard.error]
       /\ UNCHANGED <<fs, confFile, clock, issued, probe, budget, inflight>>

(***************************************************************************)
(* Specifications.                                                         *)
(***************************************************************************)
\* The delete workflow: delete_path requests one after another, the clock
\* and restarts.
Next == DeleteRequest \/ DeleteConfirm \/ Tick \/ Restart

Spec == Init /\ [][Next]_vars

\* The mutating operations of the service, one request after another.
NextOps == WriteFile \/ EditFile \/ CreateDirectory \/ MovePath \/ DeleteRequest \/ DeleteConfirm

InitOps ==
    /\ fs = InitialTree
    /\ confFile = NoFile
    /\ clock = 0
    /\ issued = [t \in Tokens |-> NeverIssued]
    /\ last = Request("start")
    /\ probe = <<>>
    /\ budget = MaxRequests
    /\ inflight = [w \in Workers |-> Idle]

SpecOps == InitOps /\ [][NextOps]_vars

\* edit_file alone: one request, on every initial content.
InitEdit ==
    /\ \E content \in StringsUpTo({"a", "b"}, MaxContentLen - 1) :
          fs = (<<Comp("r")>> :> Dir) @@ (<<Comp("r"), Comp("f")>> :> File(content))
    /\ confFile = NoFile
    /\ clock = 0
    /\ issued = [t \in Tokens |-> NeverIssued]
    /\ last = Request("start")
    /\ probe = <<>>
    /\ budget = 1
    /\ inflight = [w \in Workers |-> Idle]

NextEdit == EditAny

SpecEdit == InitEdit /\ [][NextEdit]_vars

\* PathGuard alone, on every request path string up to MaxPathLen.
InitGuard ==
    /\ fs = InitialTree
    /\ confFile = NoFile
    /\ clock = 0
    /\ issued = [t \in Tokens |-> NeverIssued]
    /\ last = Request("start")
    /\ probe \in StringsUpTo(PathChars, MaxPathLen)
    /\ budget = Unlimited
    /\ inflight = [w \in Workers |-> Idle]

NextGuard == Guard

SpecGuard == InitGuard /\ [][NextGuard]_vars

\* Operations on targets that may have disappeared: delete_path requests
\* and confirmations, moves and metadata requests, MaxTargetRequests of
\* them.
MaxTargetRequests == 3

InitTargets ==
    /\ fs = InitialTree
    /\ confFile = NoFile
    /\ clock = 0
    /\ issued = [t \in Tokens |-> NeverIssued]
    /\ last = Request("start")
    /\ probe = <<>>
    /\ budget = MaxTargetRequests
    /\ inflight = [w \in Workers |-> Idle]

NextTargets == DeleteRequest \/ DeleteConfirm \/ MovePath \/ GetMetadata

SpecTargets == InitTargets /\ [][NextTargets]_vars

\* search_files alone, one request, on a tree three levels deep below the allowed root
\* /r, with a directory /R next to it whose name differs in case only.
SearchTree ==
    LET r == <<Comp("r")>>
        s == Append(r, Comp("s"))
        d == Append(s, Comp("d"))
        R == <<Comp("R")>>
        o == <<Comp("o")>>
    IN (r :> Dir) @@ (Append(r, <<"f", "a">>) :> File(<<"a">>))
       @@ (s :> Dir) @@ (Append(s, Comp("F")) :> File(<<"a">>))
       @@ (d :> Dir) @@ (Append(d, Comp("f")) :> File(<<"a">>))
       @@ (R :> Dir) @@ (Append(R, Comp("f")) :> File(<<"a">>))
       @@ (o :> Dir) @@ (Append(o, Comp("f")) :> File(<<"a">>))

InitSearch ==
    /\ fs = SearchTree
    /\ confFile = NoFile
    /\ clock = 0
    /\ issued = [t \in Tokens |-> NeverIssued]
    /\ last = Request("start")
    /\ probe = <<>>
    /\ budget = 1
    /\ inflight = [w \in Workers |-> Idle]

NextSearch == SearchFiles

SpecSearch == InitSearch /\ [][NextSearch]_vars

\* load_confirmations alone: one call, on every snapshot.
InitLoad ==
    /\ fs = InitialTree
    /\ confFile = NoFile
    /\ clock = 0
    /\ issued = [t \in Tokens |-> NeverIssued]
    /\ last = Request("start")
    /\ probe = <<>>
    /\ budget = 1
    /\ inflight = [w \in Workers |-> Idle]

NextLoad == LoadConfirmations

SpecLoad == InitLoad /\ [][NextLoad]_vars

\* delete_path requests served by two worker processes at once,
\* MaxRaceRequests of them, while time passes.
MaxRaceRequests == 2

InitRace ==
    /\ fs = InitialTree
    /\ confFile = NoFile
    /\ clock = 0
    /\ issued = [t \in Tokens |-> NeverIssued]
    /\ last = Request("start")
    /\ probe = <<>>
    /\ budget = MaxRaceRequests
    /\ inflight = [w \in Workers |-> Idle]

NextRace == BeginAny \/ FinishAny \/ Tick

SpecRace == InitRace /\ [][NextRace]_vars

\* Three delete_path requests served by two worker processes at once: one
\* that issues a token and two that interleave after it.
MaxInterleaved == 3

InitInterleave ==
    /\ fs = InitialTree
    /\ confFile = NoFile
    /\ clock = 0
    /\ issued = [t \in Tokens |-> NeverIssued]
    /\ last = Request("start")
    /\ probe = <<>>
    /\ budget = MaxInterleaved
    /\ inflight = [w \in Workers |-> Idle]

NextInterleave == BeginAny \/ FinishAny

SpecInterleave == InitInterleave /\ [][NextInterleave]_vars

(***************************************************************************)
(* Properties of the delete workflow.                                      *)
(***************************************************************************)
\* The step handles a delete_path request.
DeleteHandled == last'.op = "delete_path"

\* The resolved target of the request in last.
TargetOf(request) == Resolve(ExpandUser(request.path))

\* The snapshot file holds token t, bound to what the history says it was
\* issued for, and t is not expired at time at.
Pending(t, at) ==
    /\ issued[t].status = "live"
    /\ confFile.exists
    /\ t \in DOMAIN confFile.data
    /\ confFile.data[t] = [path |-> issued[t].path,
                           recursive |-> issued[t].recursive,
                           expiry |-> IsoFormat(issued[t].expiry)]
    /\ issued[t].expiry > at

\* C1: over any sequence of delete_path requests, restarts and clock
\* advances, a step changes the filesystem only if it handles a delete_path
\* request that carries a token, and that token was issued earlier by a
\* no-token request for exactly the request's path string and recursive
\* flag and is still pending (in the snapshot, unexpired) when the request
\* arrives; a request without a token never changes the filesystem.
C1_DeletionOnlyWithPendingToken ==
    [][fs' # fs =>
         /\ DeleteHandled
         /\ last'.token # ""
         /\ Pending(last'.token, clock)
         /\ issued[last'.token].path = last'.path
         /\ issued[last'.token].recursive = last'.recursive]_vars

\* A confirmed request has deleted a directory recursively.
C1_Witness ==
    /\ last.op = "delete_path"
    /\ last.token # ""
    /\ last.recursive
    /\ last.resp.detail = "Successfully deleted directory recursively"
    /\ ~Exists(fs, TargetOf(last))

\* The request of the step is rejected without touching the tree: by
\* PathGuard when its path is denied, else as an invalid token.
RejectedAsInvalid ==
    /\ fs' = fs
    /\ IF normalize_path(last'.path).ok
       THEN /\ last'.resp.status = 400
            /\ last'.resp.detail = "Invalid or expired confirmation token."
       ELSE /\ last'.resp.status = 403
            /\ last'.resp.detail = "Access Denied"

\* The request of the step names exactly what token t was issued for.
SameParameters(t) ==
    issued[t].path = last'.path /\ issued[t].recursive = last'.recursive

\* The target of the request is a file, an empty directory, or a directory
\* and the request is recursive.
Removable(fsys, request) ==
    \/ IsFile(fsys, TargetOf(request))
    \/ IsEmptyDir(fsys, TargetOf(request)) /\ TargetOf(request) # <<>>
    \/ IsDir(fsys, TargetOf(request)) /\ request.recursive

\* C2: a no-token request for an existing, accepted path X with recursive R
\* yields a token T that the snapshot binds to (X, R) until now + TTL; a
\* request (X, R, T) handled before T's expiry, T issued and not yet used,
\* passes the token check, and removes the target when that is a file, an
\* empty directory, or R is true; a request carrying a used T is rejected
\* (as an invalid token, or by PathGuard when its path is denied) and
\* changes nothing.
C2_ConfirmSucceedsOnce ==
    [][DeleteHandled =>
         /\ (last'.token = "" /\ normalize_path(last'.path).ok
                /\ Exists(fs, TargetOf(last'))) =>
               /\ last'.resp.status = 200
               /\ last'.resp.confirmation_token \in Tokens
               /\ last'.resp.expires_at = clock' + CONFIRMATION_TTL_SECONDS
               /\ confFile'.exists
               /\ last'.resp.confirmation_token \in DOMAIN confFile'.data
               /\ confFile'.data[last'.resp.confirmation_token] =
                     [path |-> last'.path, recursive |-> last'.recursive,
                      expiry |-> IsoFormat(clock' + CONFIRMATION_TTL_SECONDS)]
         /\ (last'.token # "" /\ issued[last'.token].status = "live"
                /\ SameParameters(last'.token)
                /\ clock' < issued[last'.token].expiry) =>
               /\ last'.stage = "executed"
               /\ Removable(fs, last') =>
                     /\ last'.resp.status = 200
                     /\ Subtree(fs', TargetOf(last')) = {}
         /\ (last'.token # "" /\ issued[last'.token].status = "used") =>
               RejectedAsInvalid]_vars

\* A token was issued and used, and the request presenting it again with a
\* path that still exists was rejected.
C2_Witness ==
    /\ last.op = "delete_path"
    /\ last.token # ""
    /\ issued[last.token].status = "used"
    /\ last.stage = "invalid"
    /\ Exists(fs, TargetOf(last))

\* C3: a request presenting a pending, unexpired token with a path string
\* or recursive flag other than the ones it was issued for fails with
\* status 400 (parameter mismatch) and deletes nothing, and the token is
\* invalidated: the request that follows with the same token and the
\* original path and recursive flag is rejected.
C3_MismatchInvalidatesToken ==
    [][DeleteHandled =>
         /\ (last'.token # "" /\ Pending(last'.token, clock)
                /\ clock' < issued[last'.token].expiry
                /\ ~SameParameters(last'.token)
                /\ normalize_path(last'.path).ok) =>
               /\ last'.resp.status = 400
               /\ last'.stage = "mismatch"
               /\ fs' = fs
         /\ (last.op = "delete_path" /\ last.stage = "mismatch"
                /\ last'.token = last.token
                /\ SameParameters(last'.token)) =>
               /\ last'.resp.status # 200
               /\ last'.stage # "executed"
               /\ fs' = fs]_vars

\* The first half of C3 alone: the mismatching request fails with 400 and
\* deletes nothing.
MismatchRejected ==
    [][DeleteHandled =>
         ((last'.token # "" /\ Pending(last'.token, clock)
              /\ clock' < issued[last'.token].expiry
              /\ ~SameParameters(last'.token)
              /\ normalize_path(last'.path).ok) =>
             /\ last'.resp.status = 400
             /\ last'.stage = "mismatch"
             /\ fs' = fs)]_vars

\* What the handler answers when the token was never issued: the outcome
\* of the same request on a store that holds no confirmation.
NeverIssuedOutcome ==
    delete_path(fs, NoFile, last'.path, last'.recursive, last'.token,
                clock, clock', "t1").resp

\* C4: a request presenting a token whose TTL (60 seconds from issuance)
\* has elapsed when the request arrives gets the outcome of a request
\* presenting a token that was never issued: the invalid-token error
\* (PathGuard's denial when the path is denied), and nothing is deleted.
C4_ExpiredAsNeverIssued ==
    [][(DeleteHandled /\ last'.token # ""
          /\ issued[last'.token].status = "live"
          /\ clock >= issued[last'.token].expiry) =>
         /\ last'.resp = NeverIssuedOutcome
         /\ RejectedAsInvalid]_vars

\* A token still in the snapshot file was presented, with the parameters
\* it was issued for, at or after its expiry, and was rejected as invalid.
C4_Witness ==
    /\ last.op = "delete_path"
    /\ last.token # ""
    /\ issued[last.token].status = "live"
    /\ issued[last.token].path = last.path
    /\ issued[last.token].recursive = last.recursive
    /\ last.at >= issued[last.token].expiry
    /\ confFile.exists /\ last.token \in DOMAIN confFile.data
    /\ last.stage = "invalid"

\* C5: after a restart, a request presenting a token that was issued
\* before the restart and not used is rejected and deletes nothing: no
\* confirmation from before the restart authorises a deletion after it.
C5_RestartDiscardsTokens ==
    [][(DeleteHandled /\ last'.token # ""
          /\ issued[last'.token].status = "stale") =>
         RejectedAsInvalid]_vars

\* A token issued before a restart was presented before its expiry, for an
\* accepted path, and rejected.
C5_Witness ==
    /\ last.op = "delete_path"
    /\ last.token # ""
    /\ issued[last.token].status = "stale"
    /\ clock < issued[last.token].expiry
    /\ last.stage = "invalid"
    /\ last.resp.status = 400

\* C8: a confirmed request (pending token, matching parameters, handled
\* before the expiry) on a directory that is not empty, with recursive
\* false, fails with status 400 (directory not empty, retry with
\* recursive=true) and leaves the directory and its contents in place.
C8_NonEmptyDirectoryConflict ==
    [][(DeleteHandled /\ last'.token # ""
          /\ Pending(last'.token, clock)
          /\ clock' < issued[last'.token].expiry
          /\ SameParameters(last'.token)
          /\ ~last'.recursive
          /\ IsDir(fs, TargetOf(last'))
          /\ ~IsEmptyDir(fs, TargetOf(last'))) =>
         /\ last'.resp.status = 400
         /\ last'.resp.detail = "Directory not empty"
         /\ fs' = fs]_vars

\* The second half of C8 alone: the directory and its contents stay.
NonEmptyDirectoryKept ==
    [][(DeleteHandled /\ last'.token # ""
          /\ Pending(last'.token, clock)
          /\ clock' < issued[last'.token].expiry
          /\ SameParameters(last'.token)
          /\ ~last'.recursive
          /\ IsDir(fs, TargetOf(last'))
          /\ ~IsEmptyDir(fs, TargetOf(last'))) =>
         /\ last'.resp.status >= 400
         /\ fs' = fs]_vars

(***************************************************************************)
(* Properties of PathGuard.                                                *)
(***************************************************************************)
\* The lower-cased string of a resolved path begins with the lower-cased
\* string of some allowed root.
UnderSomeRoot(resolved) ==
    \E i \in DOMAIN ALLOWED_DIRECTORIES :
        LET root == Lower(ALLOWED_DIRECTORIES[i])
            text == Lower(Str(resolved))
        IN Len(text) >= Len(root) /\ SubSeq(text, 1, Len(root)) = root

\* PathGuard accepts the path string.
Accepted(path) == UnderSomeRoot(Resolve(ExpandUser(path)))

\* C6: normalize_path accepts a path string P, returning the resolved
\* path, if and only if the lower-cased resolved form of P starts with the
\* lower-cased string of at least one allowed root; otherwise it rejects
\* with status 403, Access Denied, carrying the resolved path and the list
\* of allowed roots.
C6_GuardAcceptsIffUnderRoot ==
    last.op = "normalize_path" =>
        /\ last.stage = "accepted" <=> Accepted(last.path)
        /\ last.resp.requested_path = Str(Resolve(ExpandUser(last.path)))
        /\ IF Accepted(last.path)
           THEN last.resp.status = 200
           ELSE /\ last.resp.status = 403
                /\ last.resp.detail = "Access Denied"
                /\ last.resp.allowed_directories = ALLOWED_DIRECTORIES

\* A path written in upper case, with a ".." in it, was accepted.
C6_Witness ==
    /\ last.op = "normalize_path"
    /\ last.stage = "accepted"
    /\ \E i \in DOMAIN last.path : last.path[i] = "R"
    /\ \E i \in DOMAIN last.path : last.path[i] = "."

\* The operations that change the tree or the snapshot.
Mutating == {"write_file", "edit_file", "create_directory", "delete_path", "move_path"}

\* C7: when PathGuard denies a path of a write_file, edit_file,
\* create_directory, delete_path (with or without token) or move_path
\* request, the request is answered 403 and the filesystem and the
\* snapshot file are left as they were; for move_path this holds when the
\* source or the destination is denied.
C7_DeniedRequestChangesNothing ==
    [][(last'.op \in Mutating
          /\ (~Accepted(last'.path)
                \/ (last'.op = "move_path" /\ ~Accepted(last'.path2)))) =>
         /\ last'.resp.status = 403
         /\ fs' = fs
         /\ confFile' = confFile]_vars

\* A move of an existing, accepted source to a denied destination was
\* refused while the snapshot held a pending confirmation.
C7_Witness ==
    /\ last.op = "move_path"
    /\ Accepted(last.path)
    /\ Exists(fs, Resolve(ExpandUser(last.path)))
    /\ ~Accepted(last.path2)
    /\ last.resp.status = 403
    /\ confFile.exists /\ DOMAIN confFile.data # {}

(***************************************************************************)
(* Properties of edit_file.                                                *)
(***************************************************************************)
\* sub occurs in s.
Occurs(s, sub) ==
    \E i \in 1..(Len(s) - Len(sub) + 1) : SubSeq(s, i, i + Len(sub) - 1) = sub

\* s with the first occurrence of old replaced by new.
FirstReplaced(s, old, new) ==
    LET i == CHOOSE k \in 1..(Len(s) - Len(old) + 1) :
                 /\ SubSeq(s, k, k + Len(old) - 1) = old
                 /\ \A j \in 1..(k - 1) : SubSeq(s, j, j + Len(old) - 1) # old
    IN SubSeq(s, 1, i - 1) \o new \o SubSeq(s, i + Len(old), Len(s))

\* The content after the first k edits, each found at its step.
RECURSIVE ContentAfter(_, _, _)
ContentAfter(content, edits, k) ==
    IF k = 0 THEN content
    ELSE FirstReplaced(ContentAfter(content, edits, k - 1),
                       edits[k].oldText, edits[k].newText)

\* Edit k is the first whose oldText is not in the content at its step.
FirstMissing(content, edits, k) ==
    /\ \A j \in 1..(k - 1) :
          Occurs(ContentAfter(content, edits, j - 1), edits[j].oldText)
    /\ ~Occurs(ContentAfter(content, edits, k - 1), edits[k].oldText)

AllFound(content, edits) ==
    \A j \in 1..Len(edits) :
        Occurs(ContentAfter(content, edits, j - 1), edits[j].oldText)

\* The step handles an edit_file request on an existing file.
EditHandled ==
    /\ last'.op = "edit_file"
    /\ Accepted(last'.path)
    /\ IsFile(fs, TargetOf(last'))

\* C9: edit_file is all or nothing: when some oldText is not contained in
\* the content as it stands at its step, the request fails and the tree,
\* the file's content included, is what it was before the request,
\* however many earlier edits matched.
C9_EditAllOrNothing ==
    [][(EditHandled
          /\ \E k \in 1..Len(last'.edits) :
                FirstMissing(fs[TargetOf(last')].content, last'.edits, k)) =>
         /\ last'.resp.status >= 400
         /\ fs' = fs]_vars

\* A request whose first edit matched and would have changed the content,
\* and whose second edit did not match, failed; it was no dry run.
C9_Witness ==
    /\ last.op = "edit_file"
    /\ ~last.dryRun
    /\ Len(last.edits) = 2
    /\ last.edits[1].oldText # last.edits[1].newText
    /\ IsFile(fs, TargetOf(last))
    /\ FirstMissing(fs[TargetOf(last)].content, last.edits, 2)
    /\ last.resp.status >= 400

\* C10: edit_file with dryRun=true never changes the file; when every
\* oldText is found at its step it returns the unified diff between the
\* original content and the content with all the edits applied, and the
\* content after the request is the content before it.
C10_DryRunWritesNothing ==
    [][(EditHandled /\ last'.dryRun) =>
         /\ fs' = fs
         /\ AllFound(fs[TargetOf(last')].content, last'.edits) =>
               LET original == fs[TargetOf(last')].content
                   final == ContentAfter(original, last'.edits, Len(last'.edits))
               IN /\ last'.resp.status = 200
                  /\ last'.resp.detail = "diff"
                  /\ last'.resp.diff =
                        UnifiedDiff(SplitLines(original), SplitLines(final), last'.path)
                  /\ (last'.resp.diff = <<>>) <=> (final = original)]_vars

\* A dry run of two edits that change the content returned a diff.
C10_Witness ==
    /\ last.op = "edit_file"
    /\ last.dryRun
    /\ Len(last.edits) = 2
    /\ last.resp.detail = "diff"
    /\ last.resp.diff # <<>>
    /\ IsFile(fs, TargetOf(last))
    /\ ContentAfter(fs[TargetOf(last)].content, last.edits, 2)
          # fs[TargetOf(last)].content

\* C11: when every oldText is found at its step and the request is no dry
\* run, edit_file succeeds and the content it writes is the original
\* content with the edits applied in order, each replacing only the first
\* occurrence of its oldText in the content the earlier edits produced;
\* nothing else in the tree changes.
C11_EditsReplaceFirstOccurrence ==
    [][(EditHandled /\ ~last'.dryRun
          /\ AllFound(fs[TargetOf(last')].content, last'.edits)) =>
         /\ last'.resp.status = 200
         /\ fs' = With(fs, TargetOf(last'),
                       File(ContentAfter(fs[TargetOf(last')].content,
                                         last'.edits, Len(last'.edits))))]_vars

\* The edit ("a", "b") succeeded and left "bba": the content was "aba" and
\* only its first "a" was replaced.
C11_Witness ==
    /\ last.op = "edit_file"
    /\ ~last.dryRun
    /\ last.resp.status = 200
    /\ last.edits = <<[oldText |-> <<"a">>, newText |-> <<"b">>]>>
    /\ IsFile(fs, TargetOf(last))
    /\ fs[TargetOf(last)].content = <<"b", "b", "a">>

\* C12: when an edit's oldText is not in the content at its step, the
\* caller of edit_file receives status 400 with the detail "oldText not
\* found".
C12_MissingOldTextIs400 ==
    [][(EditHandled
          /\ \E k \in 1..Len(last'.edits) :
                FirstMissing(fs[TargetOf(last')].content, last'.edits, k)) =>
         /\ last'.resp.status = 400
         /\ last'.resp.detail = "Edit failed: oldText not found"]_vars

(***************************************************************************)
(* Further properties of the delete workflow.                              *)
(***************************************************************************)
\* The request of the step carries a token that load_confirmations returns
\* and that passes the handler's expiry and parameter checks, for a path
\* PathGuard accepts.
PassesChecks ==
    /\ last'.token # ""
    /\ normalize_path(last'.path).ok
    /\ confFile.exists
    /\ last'.token \in DOMAIN confFile.data
    /\ FromIsoFormat(confFile.data[last'.token].expiry) > clock
    /\ clock' <= FromIsoFormat(confFile.data[last'.token].expiry)
    /\ confFile.data[last'.token].path = last'.path
    /\ confFile.data[last'.token].recursive = last'.recursive

\* C14: a delete_path request that passes the token and parameter checks
\* leaves the snapshot without its token, whether the deletion it then
\* attempts succeeds or fails (target missing, directory not empty without
\* recursive); a later request with that token, not issued again since, is
\* rejected and deletes nothing.
C14_TokenConsumedBeforeDeletion ==
    [][DeleteHandled =>
         /\ PassesChecks =>
               /\ last'.stage = "executed"
               /\ confFile'.exists
               /\ last'.token \notin DOMAIN confFile'.data
               /\ issued'[last'.token].status = "used"
         /\ (last'.token # "" /\ issued[last'.token].status = "used") =>
               /\ last'.stage \in {"invalid", "denied"}
               /\ last'.resp.status \in {400, 403}
               /\ fs' = fs]_vars

\* A confirmed request on a directory that is not empty failed, the
\* directory is still there, and its token is gone from the snapshot.
C14_Witness ==
    /\ last.op = "delete_path"
    /\ last.stage = "executed"
    /\ ~last.recursive
    /\ last.resp.status = 500
    /\ last.resp.cause = 400
    /\ IsDir(fs, TargetOf(last))
    /\ ~IsEmptyDir(fs, TargetOf(last))
    /\ confFile.exists
    /\ last.token \notin DOMAIN confFile.data
    /\ issued[last.token].status = "used"

\* C15: the token a no-token request issues was never issued before (so it
\* is neither pending nor consumed nor expired), and the snapshot holds no
\* entry under it that the issuance would overwrite.
C15_IssuedTokenIsFresh ==
    [][(DeleteHandled /\ last'.stage = "issued") =>
         /\ issued[last'.resp.confirmation_token].status = "never"
         /\ ~(confFile.exists
                /\ last'.resp.confirmation_token \in DOMAIN confFile.data)]_vars

\* C16: a delete_path request without a token, for a path PathGuard accepts
\* and that does not exist, fails with status 404 (path not found), returns
\* no token, and leaves the snapshot file, the history of issued tokens and
\* the tree as they were.
C16_MissingPathIssuesNothing ==
    [][(DeleteHandled /\ last'.token = ""
          /\ normalize_path(last'.path).ok
          /\ TargetOf(last') \notin DOMAIN fs) =>
         /\ last'.resp.status = 404
         /\ last'.resp.detail = "Path not found"
         /\ last'.resp.confirmation_token = ""
         /\ confFile' = confFile
         /\ issued' = issued
         /\ fs' = fs]_vars

\* A no-token request for a path that was deleted before was answered 404
\* while the snapshot held a pending confirmation.
C16_Witness ==
    /\ last.op = "delete_path"
    /\ last.token = ""
    /\ last.stage = "notfound"
    /\ last.resp.status = 404
    /\ TargetOf(last) \notin DOMAIN fs
    /\ confFile.exists
    /\ DOMAIN confFile.data # {}

(***************************************************************************)
(* Missing targets.                                                        *)
(***************************************************************************)
\* C13: an operation whose target does not exist when it executes answers
\* 404: a delete_path request that passes the token and parameter checks
\* and whose target is gone, a move_path request whose source does not
\* exist, and a get_metadata request on a missing path (all paths accepted
\* by PathGuard).
C13_MissingTargetIs404 ==
    [][/\ (DeleteHandled /\ PassesChecks /\ TargetOf(last') \notin DOMAIN fs) =>
              last'.resp.status = 404
       /\ (last'.op = "move_path" /\ Accepted(last'.path) /\ Accepted(last'.path2)
              /\ TargetOf(last') \notin DOMAIN fs) =>
              last'.resp.status = 404
       /\ (last'.op = "get_metadata" /\ Accepted(last'.path)
              /\ TargetOf(last') \notin DOMAIN fs) =>
              last'.resp.status = 404]_vars

\* The three cases of C13, one by one.
MissingDeleteTargetIs404 ==
    [][(DeleteHandled /\ PassesChecks /\ TargetOf(last') \notin DOMAIN fs) =>
         last'.resp.status = 404]_vars

MissingMoveSourceIs404 ==
    [][(last'.op = "move_path" /\ Accepted(last'.path) /\ Accepted(last'.path2)
          /\ TargetOf(last') \notin DOMAIN fs) =>
         last'.resp.status = 404]_vars

MissingMetadataPathIs404 ==
    [][(last'.op = "get_metadata" /\ Accepted(last'.path)
          /\ TargetOf(last') \notin DOMAIN fs) =>
         last'.resp.status = 404]_vars

\* What the three cases do answer: status 500, wrapping the 404.
MissingTargetIs500 ==
    [][((\/ DeleteHandled /\ PassesChecks
         \/ last'.op = "move_path" /\ Accepted(last'.path) /\ Accepted(last'.path2)
         \/ last'.op = "get_metadata" /\ Accepted(last'.path))
          /\ TargetOf(last') \notin DOMAIN fs) =>
         /\ last'.resp.status = 500
         /\ last'.resp.cause = 404
         /\ fs' = fs]_vars

(***************************************************************************)
(* Properties of search_files.                                             *)
(***************************************************************************)
\* The request in last is a search_files request PathGuard accepted.
Searched == last.op = "search_files" /\ last.resp.status = 200

\* The directories of the searched subtree that match an exclude pattern.
ExcludedDirs ==
    {q \in DOMAIN fs :
        /\ fs[q].kind = "dir"
        /\ Below(TargetOf(last), q)
        /\ \E i \in DOMAIN last.excludePatterns :
              PathMatch(q, last.excludePatterns[i])}

\* Entry q lies in an excluded directory or in a directory below one.
InExcludedSubtree(q) == \E x \in ExcludedDirs : q # x /\ Below(x, q)

\* C17: when a directory of the searched subtree matches an exclude
\* pattern, search_files returns no entry located in that directory or in
\* a directory below it.
C17_ExcludedSubtreesAreSkipped ==
    Searched =>
        \A q \in DOMAIN fs : InExcludedSubtree(q) => Str(q) \notin last.resp.matches

\* What does hold: no entry directly in a matching directory is returned.
ExcludedDirectoryIsSkipped ==
    Searched =>
        \A q \in DOMAIN fs : Parent(q) \in ExcludedDirs => Str(q) \notin last.resp.matches

\* The entries below the base whose name contains the pattern without
\* regard to case and that are in no excluded subtree.
ExpectedMatches ==
    {q \in DOMAIN fs :
        /\ q # TargetOf(last)
        /\ Below(TargetOf(last), q)
        /\ Occurs(Lower(q[Len(q)]), Lower(last.pattern))
        /\ ~InExcludedSubtree(q)}

\* C18: for every base path PathGuard accepts, search_files returns every
\* file and directory below the base whose name contains the pattern
\* case-insensitively and that is in no excluded subtree, and it returns
\* the placeholder only when there is no such entry.
C18_SearchReturnsEveryMatch ==
    Searched =>
        /\ \A q \in ExpectedMatches : Str(q) \in last.resp.matches
        /\ last.resp.matches = {NoMatchesFound} => ExpectedMatches = {}

\* What does hold: C18 for the base paths whose resolved string begins
\* with an allowed root as it is written, case included.
SearchCompleteUnderRootAsWritten ==
    (Searched
       /\ \E i \in DOMAIN ALLOWED_DIRECTORIES :
             LET root == ALLOWED_DIRECTORIES[i]
                 text == Str(TargetOf(last))
             IN Len(text) >= Len(root) /\ SubSeq(text, 1, Len(root)) = root) =>
        /\ \A q \in ExpectedMatches : Str(q) \in last.resp.matches
        /\ last.resp.matches = {NoMatchesFound} => ExpectedMatches = {}

(***************************************************************************)
(* Properties of load_confirmations.                                       *)
(***************************************************************************)
\* C19: whatever the snapshot file holds (missing, unreadable, not valid
\* JSON, valid JSON that is no object, an object with malformed entries),
\* load_confirmations raises nothing and returns a mapping; for a file
\* that is unreadable or holds no JSON object the mapping is empty, and no
\* malformed entry is in the mapping.
C19_LoadNeverRaises ==
    last.op = "load_confirmations" =>
        /\ last.loaded.raised = ""
        /\ last.snapshot.kind # "object" => last.loaded.value = NoConfirmations
        /\ \A t \in DOMAIN last.loaded.value :
              /\ t \in DOMAIN last.snapshot.entries
              /\ last.snapshot.entries[t].kind = "object"
              /\ last.snapshot.entries[t].expiry[1] = "iso"

\* What does hold: C19 for every file but the readable ones that hold
\* bytes that are no UTF-8 text or a JSON value that is no object.
LoadNeverRaisesOnObjects ==
    (last.op = "load_confirmations"
       /\ last.snapshot.kind \in {"missing", "unreadable", "invalid_json", "object"}) =>
        /\ last.loaded.raised = ""
        /\ last.snapshot.kind # "object" => last.loaded.value = NoConfirmations
        /\ \A t \in DOMAIN last.loaded.value :
              /\ t \in DOMAIN last.snapshot.entries
              /\ last.snapshot.entries[t].kind = "object"
              /\ last.snapshot.entries[t].expiry[1] = "iso"

\* On the files the service writes itself, load_confirmations as the
\* delete workflow models it is LoadSnapshot.
LoadAgreesOnWrittenFiles ==
    LoadSnapshot(SnapshotOf(confFile), clock)
        = [raised |-> "", value |-> load_confirmations(confFile, clock)]

(***************************************************************************)
(* Requests that interleave on the snapshot file.                          *)
(***************************************************************************)
\* The step finishes the request worker w had begun.
Finishing(w) == inflight[w].busy /\ ~inflight'[w].busy

\* The step saves the snapshot.
Saves == last'.stage \in {"issued", "executed", "expired"}

\* The tokens the saver's own mapping holds when it saves.
KeptBy(w) ==
    (DOMAIN inflight[w].pending \ {inflight[w].token})
        \cup (IF last'.stage = "issued" THEN {last'.resp.confirmation_token} ELSE {})

\* C20: when delete_path requests interleave, a save replaces the snapshot
\* by the saver's own mapping (what it loaded, with its one change): the
\* entries other requests saved since the saver loaded are gone and the
\* ones they removed are back, so that the last writer wins.
C20_LastWriterWins ==
    [][\A w \in Workers :
         (Finishing(w) /\ Saves) =>
            /\ confFile'.exists
            /\ DOMAIN confFile'.data = KeptBy(w)
            /\ \A t \in DOMAIN inflight[w].pending \ {inflight[w].token} :
                  last'.stage # "issued" \/ t # last'.resp.confirmation_token =>
                     confFile'.data[t] =
                        [inflight[w].pending[t] EXCEPT
                           !.expiry = IsoFormat(inflight[w].pending[t].expiry)]]_vars

\* A token that was returned to a caller, is not consumed and not expired,
\* is absent from the snapshot after another request's save, while the
\* other token issued meanwhile is in it and no request is in flight.
C20_Witness ==
    /\ \A w \in Workers : ~inflight[w].busy
    /\ \E t \in Tokens, u \in Tokens :
          /\ issued[t].status = "live"
          /\ clock < issued[t].expiry
          /\ confFile.exists
          /\ t \notin DOMAIN confFile.data
          /\ issued[u].status = "live"
          /\ u \in DOMAIN confFile.data

(***************************************************************************)
(* Order of PathGuard and I/O.                                             *)
(***************************************************************************)
\* The operations that call normalize_path on a path of the request.
Guarded ==
    Mutating \cup {"get_metadata", "search_files"}

\* PathGuard denies a path of the request in last.
Denied ==
    \/ ~Accepted(last.path)
    \/ last.op = "move_path" /\ ~Accepted(last.path2)

\* C21: a request that PathGuard denies has done no I/O before the denial;
\* a denied delete_path request has not read the snapshot file.
C21_DenialBeforeAnyIO ==
    (last.op \in Guarded /\ Denied) =>
        /\ last.resp.status = 403
        /\ last.io = <<>>

\* What does hold: C21 for every operation but delete_path.
DenialBeforeIOButDelete ==
    (last.op \in Guarded \ {"delete_path"} /\ Denied) =>
        /\ last.resp.status = 403
        /\ last.io = <<>>

\* C22: when confirmation requests with the same token and the same
\* matching path and recursive flag interleave between their load and
\* their save, at most one of them passes the token check and reaches the
\* deletion step: no request reaches it with a token that another request
\* has reached it with since the token was issued.
C22_OneConfirmationPerToken ==
    [][\A w \in Workers :
         (Finishing(w) /\ last'.stage = "executed") =>
            issued[inflight[w].token].status # "used"]_vars

\* C23: under any interleaving of delete_path requests, a token that was
\* consumed (a confirmation request removed it and saved) and not issued
\* again is in no later snapshot.
C23_ConsumedTokenStaysGone ==
    \A t \in Tokens :
        issued[t].status = "used" => ~(confFile.exists /\ t \in DOMAIN confFile.data)

\* What does hold where the requests run one after another: C23.
ConsumedTokenStaysGoneInSequence ==
    [][\A t \in Tokens :
         (issued[t].status = "used" /\ issued'[t].status = "used") =>
            ~(confFile'.exists /\ t \in DOMAIN confFile'.data)]_vars

(***************************************************************************)
(* PathGuard and the directory subtrees of the allowed roots.              *)
(***************************************************************************)
\* The components of a resolved path, lower-cased.
LowerParts(parts) == [i \in DOMAIN parts |-> Lower(parts[i])]

\* The resolved path is an allowed root or lies in the subtree of one:
\* its first components are the components of the root, letter case
\* disregarded.
InsideSomeRoot(resolved) ==
    \E i \in DOMAIN ALLOWED_DIRECTORIES :
        Below(LowerParts(Resolve(ALLOWED_DIRECTORIES[i])), LowerParts(resolved))

\* C24: every path normalize_path accepts is an allowed root or lies in
\* the directory subtree of an allowed root, component by component; a
\* sibling whose name only begins with the name of a root is not accepted.
C24_AcceptedPathsAreInsideRoots ==
    (last.op = "normalize_path" /\ last.stage = "accepted") =>
        InsideSomeRoot(Resolve(ExpandUser(last.path)))

\* What does hold: every path inside a root is accepted, and an accepted
\* path outside every root has a first differing component that begins
\* with the root's component at that place.
AcceptedOutsideIsSibling ==
    last.op = "normalize_path" =>
        LET resolved == LowerParts(Resolve(ExpandUser(last.path)))
        IN /\ InsideSomeRoot(resolved) => last.stage = "accepted"
           /\ (last.stage = "accepted" /\ ~InsideSomeRoot(resolved)) =>
                 \E i \in DOMAIN ALLOWED_DIRECTORIES :
                    LET root == LowerParts(Resolve(ALLOWED_DIRECTORIES[i]))
                        n == Len(root)
                    IN /\ Len(resolved) >= n
                       /\ SubSeq(resolved, 1, n - 1) = SubSeq(root, 1, n - 1)
                       /\ StartsWith(resolved[n], root[n])
                       /\ resolved[n] # root[n]

(***************************************************************************)
(* Expiry between the load and the handler's timestamp.                    *)
(***************************************************************************)
\* C25: a confirmation request whose own timestamp is at or after the
\* expiry of its token executes no deletion, whether the expiry falls
\* before the load, between the load and the timestamp, or on the
\* timestamp.
C25_NoDeletionAtOrAfterExpiry ==
    [][(DeleteHandled /\ last'.token # ""
          /\ issued[last'.token].status = "live"
          /\ clock' >= issued[last'.token].expiry) =>
         /\ last'.stage # "executed"
         /\ fs' = fs]_vars

\* What does hold: no deletion when the timestamp is after the expiry, or
\* when the load is at or after it.
NoDeletionAfterExpiry ==
    [][(DeleteHandled /\ last'.token # ""
          /\ issued[last'.token].status = "live"
          /\ (clock' > issued[last'.token].expiry
                 \/ clock >= issued[last'.token].expiry)) =>
         /\ last'.stage # "executed"
         /\ fs' = fs]_vars

(***************************************************************************)
(* The other confirmations of the snapshot.                                *)
(***************************************************************************)
\* The entries of the snapshot file that are unexpired when the request of
\* the step loads it.
Unexpired ==
    IF confFile.exists
    THEN {t \in DOMAIN confFile.data : FromIsoFormat(confFile.data[t].expiry) > clock}
    ELSE {}

\* C26: when requests run one after another, a request that issues a
\* token adds exactly one entry to the unexpired entries of the snapshot,
\* a request that consumes a token removes exactly that token from them,
\* and every other unexpired entry keeps its path, recursive flag and
\* expiry.
C26_OtherConfirmationsUntouched ==
    [][DeleteHandled =>
         /\ last'.stage = "issued" =>
               /\ last'.resp.confirmation_token \notin Unexpired
               /\ DOMAIN confFile'.data = Unexpired \cup {last'.resp.confirmation_token}
               /\ \A t \in Unexpired : confFile'.data[t] = confFile.data[t]
         /\ last'.stage = "executed" =>
               /\ last'.token \in Unexpired
               /\ DOMAIN confFile'.data = Unexpired \ {last'.token}
               /\ \A t \in Unexpired \ {last'.token} :
                     confFile'.data[t] = confFile.data[t]]_vars

\* What does hold: C26 for consumption, and for issuance with the entries
\* under tokens other than the issued one.
OtherTokensUntouched ==
    [][DeleteHandled =>
         /\ last'.stage = "issued" =>
               /\ DOMAIN confFile'.data = Unexpired \cup {last'.resp.confirmation_token}
               /\ \A t \in Unexpired \ {last'.resp.confirmation_token} :
                     confFile'.data[t] = confFile.data[t]
         /\ last'.stage = "executed" =>
               /\ last'.token \in Unexpired
               /\ DOMAIN confFile'.data = Unexpired \ {last'.token}
               /\ \A t \in Unexpired \ {last'.token} :
                     confFile'.data[t] = confFile.data[t]]_vars

====
